---- MODULE Spec2Model ----
(***************************************************************************)
(* Strategy lifecycle and exchange execution of the trading bot.           *)
(*                                                                         *)
(* The strategy store (trading_strategies table), the exchange's order     *)
(* book and the concurrent POST /execute handlers are modelled as one      *)
(* state machine.  Every handler step is one store query or one exchange   *)
(* call (the suspension points of the handler); the pure computations      *)
(* between two calls belong to the step of the call that follows them.     *)
(*                                                                         *)
(* Time is counted in ticks.  Strings that the code compares by prefix     *)
(* (orderLinkId) are sequences of one-character strings.  Quantities are   *)
(* counted in millionths of a coin (the code rounds to 6 decimals first).  *)
(***************************************************************************)
EXTENDS Integers, Sequences, FiniteSets, TLC

\* ------------------------------------------------------------------ bounds
\* the clock runs from 0 to MaxTime; one tick is one hour
MaxTime == 2
\* orders the exchange accepts in one run
MaxOrders == 2

\* ------------------------------------------------------------- constants
\* timedelta(hours=1)
ExpiryHours == 1

Procs == {"h1", "h2"}
\* ids handed out by the store's sequence, in order; a sequence is not
\* gap-free, so two consecutive records may carry the ids 1 and 10
IdSeq == <<1, 10>>
StrategyIds == {IdSeq[i] : i \in 1..Len(IdSeq)}
Statuses == {"PENDING", "OPEN", "CLOSED", "CANCELLED", "EXPIRED"}
\* an optional value: None, or Some(v)
None == <<>>
Some(v) == <<v>>
\* transaction ids a client passes to PUT /{strategy_id}/status
ClientTxIds == {900}
UsdtAmounts == {50}
Balances == {20, 100}
MinNotional == 5
QtyScale == 1000000

\* parameters a strategy is created with (symbol, action, entry price,
\* stop loss, take profit); stop loss and take profit are optional
CreateParams ==
  { [symbol |-> "BTCUSDT", action |-> "LONG",  entry_price |-> 58500,
     stop_loss |-> Some(56930), take_profit |-> Some(61000)],
    [symbol |-> "BTCUSDT", action |-> "LONG",  entry_price |-> 58500,
     stop_loss |-> None, take_profit |-> Some(61000)],
    [symbol |-> "BTCUSDT", action |-> "SHORT", entry_price |-> 58500,
     stop_loss |-> Some(60000), take_profit |-> None],
    [symbol |-> "ETHUSDT", action |-> "LONG",  entry_price |-> 2000,
     stop_loss |-> None, take_profit |-> None] }

\* strategies of the quantity runs: three symbols (SOLUSDT has no entry in
\* the tables of minimum quantity and quantity step) at three entry prices
QuantityParams ==
  { [symbol |-> sym, action |-> "LONG", entry_price |-> e,
     stop_loss |-> Some(e - 1), take_profit |-> Some(e + 1)] :
    sym \in {"BTCUSDT", "ETHUSDT", "SOLUSDT"}, e \in {150, 2000, 58500} }
\* usdt_amount of the requests of the quantity runs
QuantityUsdt == {1, 5, 50}

\* keyword arguments of the direct calls of execute_strategy: the valid case
\* and the invalid cases of the test script (side 'Invalid', amount -10,
\* entry price 0), with amount 0 and a negative entry price added
DirectParams ==
  { [symbol |-> "BTCUSDT", side |-> side, entry_price |-> e,
     take_profit |-> Some(98000), stop_loss |-> Some(92000)] :
    side \in {"Buy", "Sell", "Invalid"}, e \in {-1, 0, 95000} }
DirectUsdt == {-10, 0, 10}

\* arguments of the observed save_strategy calls
SaveParams ==
  { [symbol |-> sym, action |-> act, entry_price |-> 2000,
     stop_loss |-> None, take_profit |-> None] :
    sym \in {"BTCUSDT", "ETHUSDT"}, act \in {"LONG", "HOLD"} }
SaveConfidences == {-1, 0, 100, 150}

\* ----------------------------------------------------------------- strings
DigitChar == <<"0", "1", "2", "3", "4", "5", "6", "7", "8", "9">>

RECURSIVE Str(_)
\* str(n) for a non-negative integer
Str(n) == IF n < 10 THEN <<DigitChar[n + 1]>>
          ELSE Str(n \div 10) \o <<DigitChar[(n % 10) + 1]>>

SymbolChars(symbol) ==
  CASE symbol = "BTCUSDT" -> <<"B", "T", "C", "U", "S", "D", "T">>
    [] symbol = "ETHUSDT" -> <<"E", "T", "H", "U", "S", "D", "T">>
    [] symbol = "SOLUSDT" -> <<"S", "O", "L", "U", "S", "D", "T">>
    [] OTHER -> <<"?">>

SideChars(side) ==
  CASE side = "Buy" -> <<"B", "u", "y">>
    [] side = "Sell" -> <<"S", "e", "l", "l">>
    [] OTHER -> <<"?">>

\* f"STRATEGY_{request.strategy_id}"
Ticket(id) == <<"S", "T", "R", "A", "T", "E", "G", "Y", "_">> \o Str(id)

\* BaseOrderId made of the ticket alone
BaseOrderId_TicketOnly(ticket, symbol, side) == ticket

\* f"{ticket}_{symbol}_{side}"
BaseOrderId(ticket, symbol, side) ==
  ticket \o <<"_">> \o SymbolChars(symbol) \o <<"_">> \o SideChars(side)

\* f"{ticket}_{symbol}_{side}_{timestamp}"
UniqueOrderId(ticket, symbol, side, timestamp) ==
  ticket \o <<"_">> \o SymbolChars(symbol) \o <<"_">> \o SideChars(side)
         \o <<"_">> \o Str(timestamp)

\* str.startswith
StartsWith(s, prefix) ==
  /\ Len(prefix) <= Len(s)
  /\ SubSeq(s, 1, Len(prefix)) = prefix

\* "Buy" if action == 'LONG' else "Sell"
SideOf(action) == IF action = "LONG" THEN "Buy" ELSE "Sell"

\* ---------------------------------------------------------------- quantity
\* round(num / den) to the nearest integer, ties to even (Python round)
RoundHalfEven(num, den) ==
  LET q == num \div den
      r == num % den
  IN  IF 2 * r < den THEN q
      ELSE IF 2 * r > den THEN q + 1
      ELSE IF q % 2 = 0 THEN q ELSE q + 1

\* min_quantities.get(symbol, 0.001), in millionths
MinQuantity(symbol) ==
  CASE symbol = "BTCUSDT" -> 1000
    [] symbol = "ETHUSDT" -> 10000
    [] symbol = "BNBUSDT" -> 10000
    [] OTHER -> 1000

\* qty_steps.get(symbol, 0.001), in millionths
QtyStep(symbol) ==
  CASE symbol = "BTCUSDT" -> 1000
    [] symbol = "ETHUSDT" -> 10000
    [] symbol = "BNBUSDT" -> 10000
    [] OTHER -> 1000

\* the quantity of execute_strategy, in millionths, for entry_price > 0:
\* the running value is the fraction num/den of a millionth
Quantity(symbol, entry_price, usdt_amount) ==
  LET q0 == RoundHalfEven(usdt_amount * QtyScale, entry_price)
      q1 == IF q0 < MinQuantity(symbol) THEN MinQuantity(symbol) ELSE q0
      low == q1 * entry_price < MinNotional * QtyScale
      \* min_notional / entry_price, then max(quantity, min_quantity)
      num == IF ~low THEN q1
             ELSE IF MinNotional * QtyScale < MinQuantity(symbol) * entry_price
                  THEN MinQuantity(symbol) * entry_price
                  ELSE MinNotional * QtyScale
      den == IF low THEN entry_price ELSE 1
  IN  RoundHalfEven(num, den * QtyStep(symbol)) * QtyStep(symbol)

\* ----------------------------------------------------------- signal scorer
\* the indicator values a snapshot is drawn from; None is an absent field
RsiValues == {None} \cup {Some(v) : v \in {20, 30, 50, 70, 80}}
\* absent, bullish, bearish, and above the signal line with a falling histogram
MacdCases ==
  { [macd |-> None, macd_signal |-> Some(10), macd_hist |-> Some(3)],
    [macd |-> Some(12), macd_signal |-> Some(10), macd_hist |-> Some(3)],
    [macd |-> Some(10), macd_signal |-> Some(12), macd_hist |-> Some(0 - 3)],
    [macd |-> Some(12), macd_signal |-> Some(10), macd_hist |-> Some(0 - 3)] }
PriceValues == {None, Some(0), Some(100)}
\* for a price of 100: absent, stacked upwards, stacked downwards, a bullish
\* cross only, and no pattern
TrendCases ==
  { [ema20 |-> None, ema200 |-> Some(80), sma50 |-> Some(85), sma200 |-> Some(70)],
    [ema20 |-> Some(90), ema200 |-> Some(80), sma50 |-> Some(85), sma200 |-> Some(70)],
    [ema20 |-> Some(110), ema200 |-> Some(120), sma50 |-> Some(115), sma200 |-> Some(130)],
    [ema20 |-> Some(90), ema200 |-> Some(95), sma50 |-> Some(85), sma200 |-> Some(100)],
    [ema20 |-> Some(110), ema200 |-> Some(80), sma50 |-> Some(85), sma200 |-> Some(70)] }
\* for a price of 100: absent, price at the lower band, at the upper band, in
\* the middle, and bands that coincide
BollingerCases ==
  { [bb_upper |-> Some(200), bb_middle |-> None, bb_lower |-> Some(95)],
    [bb_upper |-> Some(200), bb_middle |-> Some(150), bb_lower |-> Some(95)],
    [bb_upper |-> Some(105), bb_middle |-> Some(50), bb_lower |-> Some(0)],
    [bb_upper |-> Some(150), bb_middle |-> Some(100), bb_lower |-> Some(50)],
    [bb_upper |-> Some(100), bb_middle |-> Some(100), bb_lower |-> Some(100)] }
AdxValues == {None} \cup {Some(v) : v \in {20, 30, 50}}
AtrValues == {None} \cup {Some(v) : v \in {1, 10}}

\* the fields of the indicators dictionary that analyze_trading_signals reads
\* and uses in a rule
Snapshots ==
  { [rsi |-> rsi, macd |-> m.macd, macd_signal |-> m.macd_signal,
     macd_hist |-> m.macd_hist, price |-> price, ema20 |-> t.ema20,
     ema200 |-> t.ema200, sma50 |-> t.sma50, sma200 |-> t.sma200,
     bb_upper |-> b.bb_upper, bb_middle |-> b.bb_middle,
     bb_lower |-> b.bb_lower, adx |-> adx, atr14 |-> atr14] :
       rsi \in RsiValues, m \in MacdCases, price \in PriceValues,
       t \in TrendCases, b \in BollingerCases, adx \in AdxValues,
       atr14 \in AtrValues }

\* a snapshot with every field absent
NoIndicators ==
  [rsi |-> None, macd |-> None, macd_signal |-> None, macd_hist |-> None,
   price |-> None, ema20 |-> None, ema200 |-> None, sma50 |-> None,
   sma200 |-> None, bb_upper |-> None, bb_middle |-> None, bb_lower |-> None,
   adx |-> None, atr14 |-> None]

\* str.lower() on the words of the signal texts and of the error messages
Lower(word) ==
  CASE word = "RSI" -> "rsi"
    [] word = "MACD" -> "macd"
    [] word = "Tendencia" -> "tendencia"
    [] word = "Cruce" -> "cruce"
    [] word = "Precio" -> "precio"
    [] word = "BB" -> "bb"
    [] word = "Alta" -> "alta"
    [] word = "ADX" -> "adx"
    [] word = "Confluencia" -> "confluencia"
    [] word = "Invalid" -> "invalid"
    [] word = "Timestamp" -> "timestamp"
    [] word = "ErrCode:" -> "errcode:"
    [] word = "Retries" -> "retries"
    [] word = "Insufficient" -> "insufficient"
    [] OTHER -> word

\* the keywords the confluence rule looks for in signal.lower()
BullishKeywords == {"bullish", "alcista", "sobreventa", "inferior"}
BearishKeywords == {"bearish", "bajista", "sobrecompra", "superior"}

\* any(word in signal.lower() for word in keywords); a signal is the list of
\* its words and every keyword is one word
HasKeyword(signal, keywords) ==
  \E i \in 1..Len(signal) : Lower(signal[i]) \in keywords

\* len([s for s in signals if any(...)])
CountSignals(signals, keywords) ==
  Cardinality({i \in 1..Len(signals) : HasKeyword(signals[i], keywords)})

\* ------------------------------------------------------------------- state
VARIABLES
  now,          \* the clock (datetime.now(), time.time()), in ticks
  strategies,   \* trading_strategies table: id -> record
  orders,       \* the exchange's orders: set of records
  pc,           \* position of each POST /execute handler
  req,          \* ExecuteStrategyRequest of each handler
  snap,         \* strategy = get_strategy_by_id(...) as read by the handler
  engine,       \* locals of BybitService.execute_strategy
  calls,        \* exchange calls issued by the current call, in order
  result,       \* what the handler returns or raises
  returned,     \* what the last observed call of the strategy service returned
  score,        \* locals of analyze_trading_signals and what it returns
  retry         \* locals of BybitService._execute_with_retry

vars == <<now, strategies, orders, pc, req, snap, engine, calls, result,
          returned, score, retry>>

NoReq == [strategy_id |-> 0, usdt_amount |-> 0]
\* available_balance: None until the balance has been read; listing: "ok" or
\* "failed" once get_open_orders has been called; matching: the ids of the orders
\* that were open for the symbol with the base tag when the listing was asked
NoEngine == [available_balance |-> None, timestamp |-> 0, listing |-> "",
             matching |-> {}, orders_to_cancel |-> <<>>]
NoResult == [http |-> 0, detail |-> "", execution_result |-> [success |-> FALSE]]
\* no call of the strategy service observed yet; op names the call, at the
\* clock value of its sweep, flip changes with every observed call
NoReturn == [op |-> "", id |-> 0, http |-> 0, count |-> 0, rows |-> {},
             symbol |-> "", action |-> "", confidence |-> 0, at |-> 0,
             error |-> "", flip |-> FALSE]
\* analyze_trading_signals is not running; strength in tenths
NoScore == [pc |-> "idle", indicators |-> NoIndicators, signals |-> <<>>,
            strength |-> 0, direction |-> "NEUTRAL", bullish_count |-> 0,
            bearish_count |-> 0, should_analyze |-> FALSE, error |-> ""]
\* _execute_with_retry is not running; trace lists the invocations of the
\* wrapped call and the resynchronisations of the current call, in order
NoRetry == [pc |-> "idle", attempt |-> 0, trace |-> <<>>, errors |-> <<>>,
            raised |-> <<>>, result |-> ""]
\* what get_strategy_by_id returns when no row has the id
Missing == [status |-> "MISSING"]

\* dict.get(key): None when the key is absent
Get(dict, key) == IF key \in DOMAIN dict THEN dict[key] ELSE None

Exists(id) == id \in DOMAIN strategies

\* orders the exchange reports as open for a symbol
OpenOrders(symbol) == {o \in orders : o.symbol = symbol /\ o.status = "open"}

RECURSIVE SortedById(_)
\* a set of orders as a list, in the order of their ids
SortedById(S) ==
  IF S = {} THEN <<>>
  ELSE LET o == CHOOSE x \in S : \A y \in S : x.orderId <= y.orderId
       IN  <<o>> \o SortedById(S \ {o})

Init ==
  /\ now = 0
  /\ strategies = << >>
  /\ orders = {}
  /\ pc = [p \in Procs |-> "idle"]
  /\ req = [p \in Procs |-> NoReq]
  /\ snap = [p \in Procs |-> Missing]
  /\ engine = [p \in Procs |-> NoEngine]
  /\ calls = [p \in Procs |-> <<>>]
  /\ result = [p \in Procs |-> NoResult]
  /\ returned = NoReturn
  /\ score = NoScore
  /\ retry = NoRetry

\* ------------------------------------------------------------------- clock
\* a clock that does not advance
Tick_Frozen ==
  /\ now < MaxTime
  /\ now' = now
  /\ UNCHANGED <<strategies, orders, pc, req, snap, engine, calls, result, returned, score, retry>>

Tick ==
  /\ now < MaxTime
  /\ now' = now + 1
  /\ UNCHANGED <<strategies, orders, pc, req, snap, engine, calls, result, returned, score, retry>>

\* --------------------------------------------------------- strategy store
\* the column defaults of trading_strategies that the INSERT relies on
DefaultStatus == "PENDING"
DefaultExecuted == FALSE

\* the id the sequence of the table hands out next
NextId == IdSeq[Cardinality(DOMAIN strategies) + 1]

\* Inserted with expires_at set to the time of creation
Inserted_NoExpiryDelta(params) ==
  LET rec == [symbol |-> params.symbol, action |-> params.action,
              entry_price |-> params.entry_price,
              stop_loss |-> params.stop_loss,
              take_profit |-> params.take_profit,
              status |-> DefaultStatus, executed |-> DefaultExecuted,
              transaction_id |-> None, created_at |-> now,
              expires_at |-> now, executed_at |-> None]
  IN  [i \in DOMAIN strategies \cup {NextId} |->
         IF i = NextId THEN rec ELSE strategies[i]]

\* the table after INSERT INTO trading_strategies (...) RETURNING id
Inserted(params) ==
  LET rec == [symbol |-> params.symbol, action |-> params.action,
              entry_price |-> params.entry_price,
              stop_loss |-> params.stop_loss,
              take_profit |-> params.take_profit,
              status |-> DefaultStatus, executed |-> DefaultExecuted,
              transaction_id |-> None, created_at |-> now,
              expires_at |-> now + ExpiryHours, executed_at |-> None]
  IN  [i \in DOMAIN strategies \cup {NextId} |->
         IF i = NextId THEN rec ELSE strategies[i]]

\* TradingStrategyService.save_strategy with a valid action and confidence;
\* limit is the number of rows the run lets the table grow to
Create(params, limit) ==
  /\ Cardinality(DOMAIN strategies) < limit
  /\ strategies' = Inserted(params)
  /\ UNCHANGED <<now, orders, pc, req, snap, engine, calls, result, returned, score, retry>>

\* the row after UPDATE trading_strategies SET ... WHERE id = %s
UpdatedRow(row, status, transaction_id, executed_at) ==
  [row EXCEPT !.status = status,
              !.transaction_id = IF transaction_id # None
                                 THEN transaction_id ELSE @,
              !.executed_at = IF executed_at # None THEN executed_at ELSE @,
              !.executed = IF executed_at # None THEN TRUE ELSE @]

\* TradingStrategyService.update_strategy_status: the table after the call
UpdateStrategyStatus(id, status, transaction_id, executed_at) ==
  [i \in DOMAIN strategies |->
     IF i = id THEN UpdatedRow(strategies[i], status, transaction_id, executed_at)
     ELSE strategies[i]]

\* PUT /{strategy_id}/status
UpdateStatus(id, status, transaction_id) ==
  /\ strategies' = UpdateStrategyStatus(id, status, transaction_id, None)
  /\ UNCHANGED <<now, orders, pc, req, snap, engine, calls, result, returned, score, retry>>

\* the records the sweep finds overdue at clock value t
Overdue(t) ==
  {i \in DOMAIN strategies :
     /\ strategies[i].status \in {"PENDING", "OPEN"}
     /\ strategies[i].expires_at < t}

\* the table after the sweep at clock value t
Swept(t) ==
  [i \in DOMAIN strategies |->
     IF i \in Overdue(t) THEN [strategies[i] EXCEPT !.status = "EXPIRED"]
     ELSE strategies[i]]

\* expire_old_strategies(): the sweep of the store, its count not looked at
ExpireOverdue ==
  /\ strategies' = Swept(now)
  /\ UNCHANGED <<now, orders, pc, req, snap, engine, calls, result, returned, score, retry>>

\* ------------------------------------- strategy service, results observed
\* the calls below are the calls above with what they return kept in
\* `returned`; they are made one at a time (get_active_strategies is two
\* transactions, the sweep and the SELECT, and other operations of the store
\* come between them)
Return(op) == [NoReturn EXCEPT !.op = op, !.flip = ~returned.flip]

\* SaveError accepting every confidence >= 0
SaveError_NoUpperBound(action, confidence) ==
  IF action \notin {"SHORT", "LONG"} THEN "InvalidAction"
  ELSE IF ~(0 <= confidence) THEN "InvalidConfidence"
  ELSE ""

\* the ValueError save_strategy raises before the INSERT
SaveError(action, confidence) ==
  IF action \notin {"SHORT", "LONG"} THEN "InvalidAction"
  ELSE IF ~(0 <= confidence /\ confidence <= 100) THEN "InvalidConfidence"
  ELSE ""

\* TradingStrategyService.save_strategy: raises, or inserts and returns the id
SaveStrategy(params, confidence, limit) ==
  /\ returned.op # "get_active_swept"
  /\ LET err == SaveError(params.action, confidence)
     IN  IF err # ""
         THEN /\ returned' = [Return("save_strategy") EXCEPT
                               !.action = params.action,
                               !.confidence = confidence, !.error = err]
              /\ UNCHANGED strategies
         ELSE /\ Cardinality(DOMAIN strategies) < limit
              /\ strategies' = Inserted(params)
              /\ returned' = [Return("save_strategy") EXCEPT
                               !.action = params.action,
                               !.confidence = confidence, !.id = NextId]
  /\ UNCHANGED <<now, orders, pc, req, snap, engine, calls, result, score, retry>>

\* what update_strategy_status returns after its UPDATE: True
UpdateSucceeded(id) == TRUE

\* PUT /{strategy_id}/status with its response
PutStatus(id, status, transaction_id) ==
  /\ returned.op # "get_active_swept"
  /\ IF status \notin Statuses
     THEN /\ returned' = [Return("put_status") EXCEPT !.http = 400]
          /\ UNCHANGED strategies
     ELSE /\ strategies' = UpdateStrategyStatus(id, status, transaction_id, None)
          /\ returned' = [Return("put_status") EXCEPT
                           !.id = id,
                           !.http = IF ~UpdateSucceeded(id) THEN 404 ELSE 200]
  /\ UNCHANGED <<now, orders, pc, req, snap, engine, calls, result, score, retry>>

\* ExpireOldStrategies returning 0 whatever the sweep did
ExpireOldStrategies_ZeroCount ==
  /\ returned.op # "get_active_swept"
  /\ strategies' = Swept(now)
  /\ returned' = [Return("expire") EXCEPT !.count = 0, !.at = now]
  /\ UNCHANGED <<now, orders, pc, req, snap, engine, calls, result, score, retry>>

\* TradingStrategyService.expire_old_strategies: the sweep and its count
ExpireOldStrategies ==
  /\ returned.op # "get_active_swept"
  /\ strategies' = Swept(now)
  /\ returned' = [Return("expire") EXCEPT
                   !.count = Cardinality(Overdue(now)), !.at = now]
  /\ UNCHANGED <<now, orders, pc, req, snap, engine, calls, result, score, retry>>

\* get_active_strategies, first transaction: self.expire_old_strategies();
\* symbol "" is a call without a symbol
GetActiveSweep(symbol) ==
  /\ returned.op # "get_active_swept"
  /\ strategies' = Swept(now)
  /\ returned' = [Return("get_active_swept") EXCEPT !.symbol = symbol, !.at = now]
  /\ UNCHANGED <<now, orders, pc, req, snap, engine, calls, result, score, retry>>

\* the rows of active_trading_strategies
ActiveView == DOMAIN strategies

\* get_active_strategies, second transaction: SELECT * FROM
\* active_trading_strategies where status = 'PENDING' [and symbol = %s]
GetActiveSelect ==
  /\ returned.op = "get_active_swept"
  /\ returned' = [returned EXCEPT
        !.op = "get_active",
        !.flip = ~returned.flip,
        !.rows = {i \in ActiveView :
                    /\ strategies[i].status = "PENDING"
                    /\ returned.symbol # "" => strategies[i].symbol = returned.symbol}]
  /\ UNCHANGED <<now, strategies, orders, pc, req, snap, engine, calls, result, score, retry>>

\* ----------------------------------------------------------- POST /execute
\* the locals of one handler after it has returned
Finished(p, res) ==
  /\ pc' = [pc EXCEPT ![p] = "done"]
  /\ result' = [result EXCEPT ![p] = res]

\* raise HTTPException(status_code, detail)
HttpError(status_code, detail) ==
  [http |-> status_code, detail |-> detail,
   execution_result |-> [success |-> FALSE]]

\* the response of the handler around the dict execute_strategy returned
HttpOk(execution_result) ==
  [http |-> 200, detail |-> "", execution_result |-> execution_result]

\* Failure reporting success
Failure_Success(error) == [success |-> TRUE, error |-> error]

\* the dict of the except branch of execute_strategy
Failure(error) == [success |-> FALSE, error |-> error]

\* strategy = strategy_service.get_strategy_by_id(request.strategy_id)
ExecuteFetch(p, id, usdt_amount) ==
  /\ pc[p] = "idle"
  /\ pc' = [pc EXCEPT ![p] = "check"]
  /\ req' = [req EXCEPT ![p] = [strategy_id |-> id, usdt_amount |-> usdt_amount]]
  /\ snap' = [snap EXCEPT ![p] = IF Exists(id) THEN strategies[id] ELSE Missing]
  /\ UNCHANGED <<now, strategies, orders, engine, calls, result, returned, score, retry>>

\* PreconditionError without the status check
PreconditionError_NoStatus(strategy, t) ==
  IF strategy = Missing THEN HttpError(404, "NotFound")
  ELSE IF t > strategy.expires_at THEN HttpError(400, "Expired")
  ELSE NoResult

\* PreconditionError without the expiry check
PreconditionError_NoExpiry(strategy, t) ==
  IF strategy = Missing THEN HttpError(404, "NotFound")
  ELSE IF strategy.status # "PENDING" THEN HttpError(400, "InvalidState")
  ELSE NoResult

\* the precondition that fails for a strategy as read, at clock value t
PreconditionError(strategy, t) ==
  IF strategy = Missing THEN HttpError(404, "NotFound")
  ELSE IF strategy.status # "PENDING" THEN HttpError(400, "InvalidState")
  ELSE IF t > strategy.expires_at THEN HttpError(400, "Expired")
  ELSE NoResult

\* the checks of the handler between the read and the engine call
ExecuteCheck(p) ==
  /\ pc[p] = "check"
  /\ LET err == PreconditionError(snap[p], now)
     IN  IF err # NoResult
         THEN Finished(p, err)
         ELSE /\ pc' = [pc EXCEPT ![p] = "balance"]
              /\ UNCHANGED result
  /\ UNCHANGED <<now, strategies, orders, req, snap, engine, calls, returned, score, retry>>

\* the side and the ticket execute_strategy is called with: by the handler,
\* for the strategy it read, or directly with arguments of the caller's choice
SideArg(p) ==
  IF snap[p].status = "DIRECT" THEN snap[p].side ELSE SideOf(snap[p].action)

TicketArg(p) ==
  IF snap[p].status = "DIRECT" THEN <<"T", "E", "S", "T">>
  ELSE Ticket(req[p].strategy_id)

\* bybit_service.execute_strategy(**params) called directly, as the test
\* script does; the keyword arguments are kept where the handler keeps the
\* strategy it read
DirectCall(p, params, usdt_amount) ==
  /\ pc[p] = "idle"
  /\ pc' = [pc EXCEPT ![p] = "balance"]
  /\ req' = [req EXCEPT ![p] = [strategy_id |-> 0, usdt_amount |-> usdt_amount]]
  /\ snap' = [snap EXCEPT ![p] =
        [status |-> "DIRECT", symbol |-> params.symbol, side |-> params.side,
         entry_price |-> params.entry_price,
         take_profit |-> params.take_profit, stop_loss |-> params.stop_loss]]
  /\ UNCHANGED <<now, strategies, orders, engine, calls, result, returned, score, retry>>

\* ParameterError without the check of the side
ParameterError_NoSide(side, entry_price, usdt_amount) ==
  IF entry_price = 0 THEN "ZeroDivisionError"
  ELSE IF usdt_amount <= 0 THEN "InvalidParameter"
  ELSE IF entry_price <= 0 THEN "InvalidParameter"
  ELSE ""

\* the exception execute_strategy raises before its first exchange call
ParameterError(side, entry_price, usdt_amount) ==
  IF entry_price = 0 THEN "ZeroDivisionError"
  ELSE IF side \notin {"Buy", "Sell"} THEN "InvalidParameter"
  ELSE IF usdt_amount <= 0 THEN "InvalidParameter"
  ELSE IF entry_price <= 0 THEN "InvalidParameter"
  ELSE ""

\* EngineBalance without the comparison of the balance with usdt_amount
EngineBalance_NoCheck(p, raises, available) ==
  /\ pc[p] = "balance"
  /\ calls' = [calls EXCEPT ![p] = Append(@, <<"get_wallet_balance", 0>>)]
  /\ IF raises
     THEN /\ Finished(p, HttpOk(Failure("BalanceQueryFailed")))
          /\ UNCHANGED engine
     ELSE /\ engine' = [engine EXCEPT ![p].available_balance = Some(available)]
          /\ pc' = [pc EXCEPT ![p] = "list"]
          /\ UNCHANGED result
  /\ UNCHANGED <<now, strategies, orders, req, snap, returned, score, retry>>

\* execute_strategy up to the balance check; get_available_balance either
\* raises or returns the transferBalance available
EngineBalance(p, raises, available) ==
  /\ pc[p] = "balance"
  /\ LET err == ParameterError(SideArg(p), snap[p].entry_price,
                               req[p].usdt_amount)
     IN  IF err # ""
         THEN /\ Finished(p, HttpOk(Failure(err)))
              /\ UNCHANGED <<engine, calls>>
         ELSE /\ calls' = [calls EXCEPT ![p] = Append(@, <<"get_wallet_balance", 0>>)]
              /\ IF raises
                 THEN /\ Finished(p, HttpOk(Failure("BalanceQueryFailed")))
                      /\ UNCHANGED engine
                 ELSE /\ engine' = [engine EXCEPT ![p].available_balance = Some(available)]
                      /\ IF available < req[p].usdt_amount
                         THEN Finished(p, HttpOk(Failure("InsufficientBalance")))
                         ELSE /\ pc' = [pc EXCEPT ![p] = "list"]
                              /\ UNCHANGED result
  /\ UNCHANGED <<now, strategies, orders, req, snap, returned, score, retry>>

\* the base tag of the call of handler p
BaseOf(p) == BaseOrderId(TicketArg(p), snap[p].symbol, SideArg(p))

\* OrdersToCancel comparing the whole tag instead of its prefix
OrdersToCancel_ExactMatch(listing, base_order_link_id) ==
  SortedById({o \in listing : o.orderLinkId = base_order_link_id})

\* orders_to_cancel of _cancel_existing_orders for a listing
OrdersToCancel(listing, base_order_link_id) ==
  SortedById({o \in listing : StartsWith(o.orderLinkId, base_order_link_id)})

\* EngineList going on to the order placement without the cancel loop
EngineList_SkipCancel(p, outcome) ==
  /\ pc[p] = "list"
  /\ calls' = [calls EXCEPT ![p] = Append(@, <<"get_open_orders", 0>>)]
  /\ engine' = [engine EXCEPT
        ![p].timestamp = now,
        ![p].listing = IF outcome = "ok" THEN "ok" ELSE "failed",
        ![p].matching = {o.orderId : o \in
           {x \in OpenOrders(snap[p].symbol) :
              StartsWith(x.orderLinkId, BaseOf(p))}},
        ![p].orders_to_cancel =
           IF outcome = "ok"
           THEN OrdersToCancel(OpenOrders(snap[p].symbol), BaseOf(p))
           ELSE <<>>]
  /\ pc' = [pc EXCEPT ![p] = "place"]
  /\ UNCHANGED <<now, strategies, orders, req, snap, result, returned, score, retry>>

\* the timestamp read and the listing of _cancel_existing_orders; outcome is
\* what get_open_orders does: "ok", "error" (retCode # 0) or "raise"
EngineList(p, outcome) ==
  /\ pc[p] = "list"
  /\ calls' = [calls EXCEPT ![p] = Append(@, <<"get_open_orders", 0>>)]
  /\ LET todo == IF outcome = "ok"
                 THEN OrdersToCancel(OpenOrders(snap[p].symbol), BaseOf(p))
                 ELSE <<>>
     IN  /\ engine' = [engine EXCEPT
               ![p].timestamp = now,
               ![p].listing = IF outcome = "ok" THEN "ok" ELSE "failed",
               ![p].matching = {o.orderId : o \in
                  {x \in OpenOrders(snap[p].symbol) :
                     StartsWith(x.orderLinkId, BaseOf(p))}},
               ![p].orders_to_cancel = todo]
         /\ pc' = [pc EXCEPT ![p] = IF todo = <<>> THEN "place" ELSE "cancel"]
  /\ UNCHANGED <<now, strategies, orders, req, snap, result, returned, score, retry>>

\* EngineCancel with a cancel that raises ending the call
EngineCancel_Abort(p, outcome) ==
  /\ pc[p] = "cancel"
  /\ LET o == Head(engine[p].orders_to_cancel)
         live == {x \in orders : x.orderId = o.orderId /\ x.status = "open"}
     IN  /\ outcome = "ok" => live # {}
         /\ calls' = [calls EXCEPT ![p] = Append(@, <<"cancel_order", o.orderId>>)]
         /\ orders' = IF outcome = "ok"
                      THEN (orders \ live) \cup
                           {[x EXCEPT !.status = "cancelled"] : x \in live}
                      ELSE orders
         /\ engine' = [engine EXCEPT ![p].orders_to_cancel = Tail(@)]
         /\ IF outcome = "raise"
            THEN Finished(p, HttpOk(Failure("CancelFailed")))
            ELSE /\ pc' = [pc EXCEPT ![p] = IF Tail(engine[p].orders_to_cancel) = <<>>
                                            THEN "place" ELSE "cancel"]
                 /\ UNCHANGED result
  /\ UNCHANGED <<now, strategies, req, snap, returned, score, retry>>

\* one iteration of the cancel loop; outcome is what cancel_order does:
\* "ok", "error" (retCode # 0) or "raise"; none of them leaves the loop
EngineCancel(p, outcome) ==
  /\ pc[p] = "cancel"
  /\ LET o == Head(engine[p].orders_to_cancel)
         live == {x \in orders : x.orderId = o.orderId /\ x.status = "open"}
     IN  /\ outcome = "ok" => live # {}
         /\ calls' = [calls EXCEPT ![p] = Append(@, <<"cancel_order", o.orderId>>)]
         /\ orders' = IF outcome = "ok"
                      THEN (orders \ live) \cup
                           {[x EXCEPT !.status = "cancelled"] : x \in live}
                      ELSE orders
         /\ engine' = [engine EXCEPT ![p].orders_to_cancel = Tail(@)]
         /\ pc' = [pc EXCEPT ![p] = IF Tail(engine[p].orders_to_cancel) = <<>>
                                    THEN "place" ELSE "cancel"]
  /\ UNCHANGED <<now, strategies, req, snap, result, returned, score, retry>>

\* take_profit > 0, stop_loss > 0 raise TypeError on None
TpSlError(take_profit, stop_loss) ==
  IF take_profit = None \/ stop_loss = None THEN "TypeError" ELSE ""

\* order_params of execute_strategy
OrderParams(p) ==
  LET side == SideArg(p)
  IN  [symbol |-> snap[p].symbol, side |-> side, orderType |-> "Limit",
       qty |-> Quantity(snap[p].symbol, snap[p].entry_price, req[p].usdt_amount),
       price |-> snap[p].entry_price,
       orderLinkId |-> UniqueOrderId(TicketArg(p), snap[p].symbol,
                                     side, engine[p].timestamp),
       takeProfit |-> IF snap[p].take_profit[1] > 0
                      THEN snap[p].take_profit ELSE None,
       stopLoss |-> IF snap[p].stop_loss[1] > 0
                    THEN snap[p].stop_loss ELSE None]

\* the order placement of execute_strategy; outcome is what place_order
\* does: "accepted" (retCode 0 with an orderId), "rejected" or "raise"
EnginePlace(p, outcome) ==
  /\ pc[p] = "place"
  /\ LET err == TpSlError(snap[p].take_profit, snap[p].stop_loss)
     IN  IF err # ""
         THEN /\ Finished(p, HttpOk(Failure(err)))
              /\ UNCHANGED <<orders, calls>>
         ELSE /\ calls' = [calls EXCEPT ![p] = Append(@, <<"place_order", 0>>)]
              /\ IF outcome = "accepted"
                 THEN LET order_id == Cardinality(orders) + 1
                          params == OrderParams(p)
                      IN  /\ Cardinality(orders) < MaxOrders
                          /\ orders' = orders \cup
                               {[orderId |-> order_id, status |-> "open",
                                 symbol |-> params.symbol, side |-> params.side,
                                 orderType |-> params.orderType,
                                 qty |-> params.qty, price |-> params.price,
                                 orderLinkId |-> params.orderLinkId,
                                 takeProfit |-> params.takeProfit,
                                 stopLoss |-> params.stopLoss,
                                 strategy_id |-> req[p].strategy_id,
                                 placed_by |-> p]}
                          /\ pc' = [pc EXCEPT ![p] =
                                 IF snap[p].status = "DIRECT" THEN "done"
                                 ELSE "record"]
                          /\ result' = [result EXCEPT ![p] = HttpOk(
                               [success |-> TRUE, order_id |-> Some(order_id),
                                quantity |-> params.qty,
                                entry_price |-> params.price,
                                take_profit |-> snap[p].take_profit,
                                stop_loss |-> snap[p].stop_loss])]
                 ELSE /\ Finished(p, HttpOk(Failure(
                            IF outcome = "rejected" THEN "ExchangeRejected"
                            ELSE "ExchangeError")))
                      /\ UNCHANGED orders
  /\ UNCHANGED <<now, strategies, req, snap, engine, returned, score, retry>>

\* update_strategy_status(id, 'OPEN', result.get('transaction_id'),
\* executed_at=datetime.now()); ok is whether the store executes the UPDATE
ExecuteRecord(p, ok) ==
  /\ pc[p] = "record"
  /\ IF ok
     THEN /\ strategies' = UpdateStrategyStatus(req[p].strategy_id, "OPEN",
                 Get(result[p].execution_result, "transaction_id"), Some(now))
          /\ Finished(p, result[p])
     ELSE /\ Finished(p, HttpError(500, "StoreError"))
          /\ UNCHANGED strategies
  /\ UNCHANGED <<now, orders, req, snap, engine, calls, returned, score, retry>>

\* the response is sent; the handler is free for the next request
ExecuteReturn(p) ==
  /\ pc[p] = "done"
  /\ pc' = [pc EXCEPT ![p] = "idle"]
  /\ req' = [req EXCEPT ![p] = NoReq]
  /\ snap' = [snap EXCEPT ![p] = Missing]
  /\ engine' = [engine EXCEPT ![p] = NoEngine]
  /\ calls' = [calls EXCEPT ![p] = <<>>]
  /\ result' = [result EXCEPT ![p] = NoResult]
  /\ UNCHANGED <<now, strategies, orders, returned, score, retry>>

\* ------------------------------------------------- analyze_trading_signals
\* strength is counted in tenths: 2.0 is 20, 10.0 is 100
\* signals = [], strength = 0.0, direction = "NEUTRAL"
Analyze(indicators) ==
  [NoScore EXCEPT !.pc = "rsi", !.indicators = indicators]

\* the function is called with a snapshot
AnalyzeStart ==
  /\ score.pc = "idle"
  /\ \E indicators \in Snapshots : score' = Analyze(indicators)
  /\ UNCHANGED <<now, strategies, orders, pc, req, snap, engine, calls, result, returned, retry>>

\* signals.append(signal); strength += weight
Fired(s, signal, weight) ==
  [s EXCEPT !.signals = Append(@, signal), !.strength = @ + weight]

\* if direction != opposite: direction = side
Unless(s, opposite, side) ==
  [s EXCEPT !.direction = IF @ # opposite THEN side ELSE @]

\* the next rule is reached
Goto(s, rule) == [s EXCEPT !.pc = rule]

\* 1. RSI: the first rule assigns direction
RsiRule ==
  /\ score.pc = "rsi"
  /\ LET rsi == score.indicators.rsi
         s == Goto(score, "macd")
     IN  score' =
           IF rsi = None THEN s
           ELSE IF rsi[1] < 25
             THEN [Fired(s, <<"RSI", "sobreventa", "extrema">>, 20)
                     EXCEPT !.direction = "BULLISH"]
           ELSE IF rsi[1] < 35
             THEN [Fired(s, <<"RSI", "sobreventa">>, 15)
                     EXCEPT !.direction = "BULLISH"]
           ELSE IF rsi[1] > 75
             THEN [Fired(s, <<"RSI", "sobrecompra", "extrema">>, 20)
                     EXCEPT !.direction = "BEARISH"]
           ELSE IF rsi[1] > 65
             THEN [Fired(s, <<"RSI", "sobrecompra">>, 15)
                     EXCEPT !.direction = "BEARISH"]
           ELSE s
  /\ UNCHANGED <<now, strategies, orders, pc, req, snap, engine, calls, result, returned, retry>>

\* 2. MACD
MacdRule ==
  /\ score.pc = "macd"
  /\ LET i == score.indicators
         s == Goto(score, "trend")
     IN  score' =
           IF None \in {i.macd, i.macd_signal, i.macd_hist} THEN s
           ELSE IF i.macd[1] > i.macd_signal[1] /\ i.macd_hist[1] > 0
             THEN Unless(Fired(s, <<"MACD", "bullish">>, 15), "BEARISH", "BULLISH")
           ELSE IF i.macd[1] < i.macd_signal[1] /\ i.macd_hist[1] < 0
             THEN Unless(Fired(s, <<"MACD", "bearish">>, 15), "BULLISH", "BEARISH")
           ELSE s
  /\ UNCHANGED <<now, strategies, orders, pc, req, snap, engine, calls, result, returned, retry>>

\* 3. moving averages, with every write of direction unguarded
MovingAverageRule_Unguarded ==
  /\ score.pc = "trend"
  /\ LET i == score.indicators
         s == Goto(score, "bollinger")
     IN  score' =
           IF None \in {i.price, i.ema20, i.ema200, i.sma50, i.sma200} THEN s
           ELSE IF /\ i.price[1] > i.ema20[1] /\ i.ema20[1] > i.ema200[1]
                   /\ i.price[1] > i.sma50[1] /\ i.sma50[1] > i.sma200[1]
             THEN [Fired(s, <<"Tendencia", "alcista", "fuerte">>, 15)
                     EXCEPT !.direction = "BULLISH"]
           ELSE IF /\ i.price[1] < i.ema20[1] /\ i.ema20[1] < i.ema200[1]
                   /\ i.price[1] < i.sma50[1] /\ i.sma50[1] < i.sma200[1]
             THEN [Fired(s, <<"Tendencia", "bajista", "fuerte">>, 15)
                     EXCEPT !.direction = "BEARISH"]
           ELSE IF i.price[1] > i.ema20[1] /\ i.ema20[1] > i.sma50[1]
             THEN [Fired(s, <<"Cruce", "alcista", "de", "medias">>, 10)
                     EXCEPT !.direction = "BULLISH"]
           ELSE s
  /\ UNCHANGED <<now, strategies, orders, pc, req, snap, engine, calls, result, returned, retry>>

\* 3. moving averages
MovingAverageRule ==
  /\ score.pc = "trend"
  /\ LET i == score.indicators
         s == Goto(score, "bollinger")
     IN  score' =
           IF None \in {i.price, i.ema20, i.ema200, i.sma50, i.sma200} THEN s
           ELSE IF /\ i.price[1] > i.ema20[1] /\ i.ema20[1] > i.ema200[1]
                   /\ i.price[1] > i.sma50[1] /\ i.sma50[1] > i.sma200[1]
             THEN Unless(Fired(s, <<"Tendencia", "alcista", "fuerte">>, 15),
                         "BEARISH", "BULLISH")
           ELSE IF /\ i.price[1] < i.ema20[1] /\ i.ema20[1] < i.ema200[1]
                   /\ i.price[1] < i.sma50[1] /\ i.sma50[1] < i.sma200[1]
             THEN Unless(Fired(s, <<"Tendencia", "bajista", "fuerte">>, 15),
                         "BULLISH", "BEARISH")
           ELSE IF i.price[1] > i.ema20[1] /\ i.ema20[1] > i.sma50[1]
             THEN Unless(Fired(s, <<"Cruce", "alcista", "de", "medias">>, 10),
                         "BEARISH", "BULLISH")
           ELSE s
  /\ UNCHANGED <<now, strategies, orders, pc, req, snap, engine, calls, result, returned, retry>>

\* the division raised: the call ends with the exception, nothing is returned
Raised(s, error) == [s EXCEPT !.pc = "raised", !.error = error]

\* num / den < tenths / 10, for a den that is not zero
RatioBelow(num, den, tenths) ==
  IF den > 0 THEN 10 * num < tenths * den ELSE 10 * num > tenths * den

\* num / den > tenths / 10, for a den that is not zero
RatioAbove(num, den, tenths) ==
  IF den > 0 THEN 10 * num > tenths * den ELSE 10 * num < tenths * den

\* 4. Bollinger bands: bb_position = (price - bb_lower) / (bb_upper - bb_lower)
BollingerRule ==
  /\ score.pc = "bollinger"
  /\ LET i == score.indicators
         s == Goto(score, "adx")
     IN  score' =
           IF None \in {i.price, i.bb_upper, i.bb_middle, i.bb_lower} THEN s
           ELSE IF i.bb_upper[1] - i.bb_lower[1] = 0
             THEN Raised(score, "ZeroDivisionError")
           ELSE IF RatioBelow(i.price[1] - i.bb_lower[1],
                              i.bb_upper[1] - i.bb_lower[1], 1)
             THEN Unless(Fired(s, <<"Precio", "en", "banda", "inferior", "BB">>, 10),
                         "BEARISH", "BULLISH")
           ELSE IF RatioAbove(i.price[1] - i.bb_lower[1],
                              i.bb_upper[1] - i.bb_lower[1], 9)
             THEN Unless(Fired(s, <<"Precio", "en", "banda", "superior", "BB">>, 10),
                         "BULLISH", "BEARISH")
           ELSE s
  /\ UNCHANGED <<now, strategies, orders, pc, req, snap, engine, calls, result, returned, retry>>

\* 5. ADX; the value formatted into the text is left out of the words
AdxRule ==
  /\ score.pc = "adx"
  /\ LET adx == score.indicators.adx
         s == Goto(score, "atr")
     IN  score' =
           IF adx = None THEN s
           ELSE IF adx[1] > 40
             THEN Fired(s, <<"Tendencia", "muy", "fuerte", "ADX">>, 10)
           ELSE IF adx[1] > 25
             THEN Fired(s, <<"Tendencia", "fuerte", "ADX">>, 5)
           ELSE s
  /\ UNCHANGED <<now, strategies, orders, pc, req, snap, engine, calls, result, returned, retry>>

\* 6. ATR: atr_percentage = (atr14 / price) * 100, high above 5
AtrRule ==
  /\ score.pc = "atr"
  /\ LET i == score.indicators
         s == Goto(score, "confluence")
     IN  score' =
           IF None \in {i.atr14, i.price} THEN s
           ELSE IF i.price[1] = 0 THEN Raised(score, "ZeroDivisionError")
           ELSE IF RatioAbove(100 * i.atr14[1], i.price[1], 50)
             THEN Fired(s, <<"Alta", "volatilidad", "ATR">>, 5)
           ELSE s
  /\ UNCHANGED <<now, strategies, orders, pc, req, snap, engine, calls, result, returned, retry>>

\* 7. confluence: three signals of one side add a bonus and assign direction
ConfluenceRule ==
  /\ score.pc = "confluence"
  /\ LET bullish_signals == CountSignals(score.signals, BullishKeywords)
         bearish_signals == CountSignals(score.signals, BearishKeywords)
         s == [score EXCEPT !.pc = "return",
                            !.bullish_count = bullish_signals,
                            !.bearish_count = bearish_signals]
     IN  score' =
           IF bullish_signals >= 3
             THEN [Fired(s, <<"Confluencia", "bullish">>, 10)
                     EXCEPT !.direction = "BULLISH"]
           ELSE IF bearish_signals >= 3
             THEN [Fired(s, <<"Confluencia", "bearish">>, 10)
                     EXCEPT !.direction = "BEARISH"]
           ELSE s
  /\ UNCHANGED <<now, strategies, orders, pc, req, snap, engine, calls, result, returned, retry>>

\* the result, with should_analyze only above the threshold
AnalyzeReturn_StrictThreshold ==
  /\ score.pc = "return"
  /\ LET strength == IF score.strength < 100 THEN score.strength ELSE 100
     IN  score' = [score EXCEPT !.pc = "done", !.strength = strength,
                                !.should_analyze = strength > 20]
  /\ UNCHANGED <<now, strategies, orders, pc, req, snap, engine, calls, result, returned, retry>>

\* strength = min(strength, 10.0); should_analyze = strength >= 2.0
AnalyzeReturn ==
  /\ score.pc = "return"
  /\ LET strength == IF score.strength < 100 THEN score.strength ELSE 100
     IN  score' = [score EXCEPT !.pc = "done", !.strength = strength,
                                !.should_analyze = strength >= 20]
  /\ UNCHANGED <<now, strategies, orders, pc, req, snap, engine, calls, result, returned, retry>>

\* ------------------------------------------ BybitService._execute_with_retry
\* max_retries=2
MaxRetries == 2

\* str(e) of the exceptions the wrapped call raises, as lists of words
ErrorMessages ==
  { <<"Invalid", "Timestamp">>,
    <<"invalid", "recv_window">>,
    <<"ErrCode:", "10002">>,
    <<"Retries", "exceeded", "maximum">>,
    <<"Retries", "exceeded">>,
    <<"Insufficient", "balance">> }

\* error_str.lower()
LowerAll(error_str) == [i \in 1..Len(error_str) |-> Lower(error_str[i])]

\* phrase in text
Contains(text, phrase) ==
  \E i \in 1..Len(text) :
    /\ i + Len(phrase) - 1 <= Len(text)
    /\ SubSeq(text, i, i + Len(phrase) - 1) = phrase

\* every error taken for a timestamp error
IsTimestampError_Always(error_str) == TRUE

\* is_timestamp_error
IsTimestampError(error_str) ==
  \/ Contains(LowerAll(error_str), <<"timestamp">>)
  \/ Contains(LowerAll(error_str), <<"recv_window">>)
  \/ Contains(error_str, <<"10002">>)
  \/ Contains(LowerAll(error_str), <<"retries", "exceeded", "maximum">>)

\* what _sync_server_time can do: leave the client, recreate it with a wider
\* recv_window, or fail (an exception or a bad retCode, printed and swallowed)
SyncOutcomes == {"sync_ok", "sync_adjusted", "sync_failed"}

\* a call wrapped by _execute_with_retry begins: last_exception = None, attempt 0
RetryStart ==
  /\ retry.pc = "idle"
  /\ retry' = [NoRetry EXCEPT !.pc = "call"]
  /\ UNCHANGED <<now, strategies, orders, pc, req, snap, engine, calls, result, returned, score>>

\* on exhaustion the error of the first attempt is raised
RetryCall_FirstError(outcome) ==
  /\ retry.pc = "call"
  /\ LET e == [message |-> outcome, attempt |-> retry.attempt]
         r == [retry EXCEPT !.trace = Append(@, "call")]
         f == [r EXCEPT !.errors = Append(@, e)]
     IN  retry' =
           IF outcome = <<"ok">>
             THEN [r EXCEPT !.pc = "returned", !.result = "ok"]
           ELSE IF IsTimestampError(outcome) /\ retry.attempt < MaxRetries
             THEN [f EXCEPT !.pc = "sync"]
           ELSE [f EXCEPT !.pc = "raised", !.raised = <<f.errors[1]>>]
  /\ UNCHANGED <<now, strategies, orders, pc, req, snap, engine, calls, result, returned, score>>

\* one attempt: return func(*args, **kwargs), or the except branch, which
\* goes on to the resynchronisation or raises e
RetryCall(outcome) ==
  /\ retry.pc = "call"
  /\ LET e == [message |-> outcome, attempt |-> retry.attempt]
         r == [retry EXCEPT !.trace = Append(@, "call")]
         f == [r EXCEPT !.errors = Append(@, e)]
     IN  retry' =
           IF outcome = <<"ok">>
             THEN [r EXCEPT !.pc = "returned", !.result = "ok"]
           ELSE IF IsTimestampError(outcome) /\ retry.attempt < MaxRetries
             THEN [f EXCEPT !.pc = "sync"]
           ELSE [f EXCEPT !.pc = "raised", !.raised = <<e>>]
  /\ UNCHANGED <<now, strategies, orders, pc, req, snap, engine, calls, result, returned, score>>

\* self._sync_server_time(); time.sleep(2); continue
RetrySync(outcome) ==
  /\ retry.pc = "sync"
  /\ retry' = [retry EXCEPT !.trace = Append(@, outcome),
                            !.attempt = @ + 1,
                            !.pc = "call"]
  /\ UNCHANGED <<now, strategies, orders, pc, req, snap, engine, calls, result, returned, score>>

\* ------------------------------------------------------------ specification
\* what get_open_orders and cancel_order can do: answer retCode 0, answer
\* another retCode, or raise
CallOutcomes == {"ok", "error", "raise"}

\* the steps of one POST /execute handler, called for the given ids, the
\* duplicate cancellation having the given outcomes
HandlerWith(p, ids, outcomes) ==
  \/ \E id \in ids, usdt \in UsdtAmounts : ExecuteFetch(p, id, usdt)
  \/ ExecuteCheck(p)
  \/ \E raises \in BOOLEAN, available \in Balances :
        EngineBalance(p, raises, available)
  \/ \E outcome \in outcomes : EngineList(p, outcome)
  \/ \E outcome \in outcomes : EngineCancel(p, outcome)
  \/ \E outcome \in {"accepted", "rejected", "raise"} : EnginePlace(p, outcome)
  \/ \E ok \in BOOLEAN : ExecuteRecord(p, ok)
  \/ ExecuteReturn(p)

Handler(p) == HandlerWith(p, StrategyIds, CallOutcomes)

TxArgs == {None} \cup {Some(t) : t \in ClientTxIds}

\* the whole system: every operation, any number of concurrent handlers
Next ==
  \/ Tick
  \/ \E params \in CreateParams : Create(params, Len(IdSeq))
  \/ \E id \in StrategyIds, status \in Statuses, tx \in TxArgs :
        UpdateStatus(id, status, tx)
  \/ ExpireOverdue
  \/ \E p \in Procs : Handler(p)
  \/ \E p \in Procs, params \in DirectParams, usdt \in DirectUsdt :
        DirectCall(p, params, usdt)
  \/ \E params \in SaveParams, confidence \in SaveConfidences :
        SaveStrategy(params, confidence, Len(IdSeq))
  \/ \E id \in StrategyIds, status \in Statuses \cup {"DONE"}, tx \in TxArgs :
        PutStatus(id, status, tx)
  \/ ExpireOldStrategies
  \/ \E symbol \in {"", "BTCUSDT", "ETHUSDT"} : GetActiveSweep(symbol)
  \/ GetActiveSelect
  \/ AnalyzeStart
  \/ RsiRule
  \/ MacdRule
  \/ MovingAverageRule
  \/ BollingerRule
  \/ AdxRule
  \/ AtrRule
  \/ ConfluenceRule
  \/ AnalyzeReturn
  \/ RetryStart
  \/ \E outcome \in {<<"ok">>} \cup ErrorMessages : RetryCall(outcome)
  \/ \E outcome \in SyncOutcomes : RetrySync(outcome)

Spec == Init /\ [][Next]_vars

\* one strategy, requests handled one at a time, every store operation
NextSingle ==
  \/ Tick
  \/ \E params \in CreateParams : Create(params, 1)
  \/ \E status \in Statuses, tx \in TxArgs : UpdateStatus(IdSeq[1], status, tx)
  \/ ExpireOverdue
  \/ HandlerWith("h1", {IdSeq[1]}, CallOutcomes)

SpecSingle == Init /\ [][NextSingle]_vars

\* two strategies, requests handled one at a time; a strategy leaves
\* PENDING by execution or by the sweep only
NextPair ==
  \/ Tick
  \/ \E params \in CreateParams : Create(params, 2)
  \/ ExpireOverdue
  \/ Handler("h1")

SpecPair == Init /\ [][NextPair]_vars

\* as SpecPair, the open-order listing and every cancel succeeding
NextClean ==
  \/ Tick
  \/ \E params \in CreateParams : Create(params, 2)
  \/ ExpireOverdue
  \/ HandlerWith("h1", StrategyIds, {"ok"})

SpecClean == Init /\ [][NextClean]_vars

\* one strategy with stop loss and take profit, two concurrent handlers
\* called for it within one tick of the clock, cancellation by the client
NextRace ==
  \/ \E params \in {c \in CreateParams : TpSlError(c.take_profit, c.stop_loss) = ""} :
        Create(params, 1)
  \/ UpdateStatus(IdSeq[1], "CANCELLED", None)
  \/ \E p \in Procs : HandlerWith(p, {IdSeq[1]}, CallOutcomes)

SpecRace == Init /\ [][NextRace]_vars

\* one strategy of QuantityParams executed for the amounts of QuantityUsdt,
\* requests handled one at a time
NextQuantity ==
  \/ \E params \in QuantityParams : Create(params, 1)
  \/ \E usdt \in QuantityUsdt : ExecuteFetch("h1", IdSeq[1], usdt)
  \/ ExecuteCheck("h1")
  \/ \E raises \in BOOLEAN, available \in Balances :
        EngineBalance("h1", raises, available)
  \/ \E outcome \in CallOutcomes : EngineList("h1", outcome)
  \/ \E outcome \in CallOutcomes : EngineCancel("h1", outcome)
  \/ \E outcome \in {"accepted", "rejected", "raise"} : EnginePlace("h1", outcome)
  \/ \E ok \in BOOLEAN : ExecuteRecord("h1", ok)
  \/ ExecuteReturn("h1")

SpecQuantity == Init /\ [][NextQuantity]_vars

\* execute_strategy called directly, one call at a time
NextEngine ==
  \/ \E params \in DirectParams, usdt \in DirectUsdt :
        DirectCall("h1", params, usdt)
  \/ \E raises \in BOOLEAN, available \in Balances :
        EngineBalance("h1", raises, available)
  \/ \E outcome \in CallOutcomes : EngineList("h1", outcome)
  \/ \E outcome \in CallOutcomes : EngineCancel("h1", outcome)
  \/ \E outcome \in {"accepted", "rejected", "raise"} : EnginePlace("h1", outcome)
  \/ ExecuteReturn("h1")

SpecEngine == Init /\ [][NextEngine]_vars

\* the strategy service alone: two strategies, the calls of one client
\* observed, another client updating statuses at any moment
NextStore ==
  \/ Tick
  \/ \E params \in SaveParams, confidence \in SaveConfidences :
        SaveStrategy(params, confidence, 2)
  \/ \E id \in StrategyIds, status \in Statuses \cup {"DONE"} :
        PutStatus(id, status, None)
  \/ \E id \in StrategyIds, status \in Statuses : UpdateStatus(id, status, None)
  \/ ExpireOldStrategies
  \/ \E symbol \in {"", "BTCUSDT", "ETHUSDT"} : GetActiveSweep(symbol)
  \/ GetActiveSelect

SpecStore == Init /\ [][NextStore]_vars

\* one strategy with stop loss and take profit through its whole life:
\* created, executed (listing and cancels succeeding), updated, swept, listed
NextLifecycle ==
  \/ Tick
  \/ \E params \in {c \in CreateParams : TpSlError(c.take_profit, c.stop_loss) = ""} :
        Create(params, 1)
  \/ \E status \in Statuses : UpdateStatus(IdSeq[1], status, None)
  \/ ExpireOldStrategies
  \/ GetActiveSweep("")
  \/ GetActiveSelect
  \/ HandlerWith("h1", {IdSeq[1]}, {"ok"})

SpecLifecycle == Init /\ [][NextLifecycle]_vars

\* one strategy with stop loss and take profit, created early enough for its
\* expiry to pass before the clock stops at MaxTime; executed, cancelled by
\* the client, swept
NextSweep ==
  \/ Tick
  \/ /\ now + ExpiryHours < MaxTime
     /\ \E params \in {c \in CreateParams : TpSlError(c.take_profit, c.stop_loss) = ""} :
          Create(params, 1)
  \/ UpdateStatus(IdSeq[1], "CANCELLED", None)
  \/ ExpireOverdue
  \/ HandlerWith("h1", {IdSeq[1]}, {"ok"})

\* time keeps advancing and the sweep keeps being run (by the scheduled
\* scripts/expire_strategies.py and by every get_active_strategies)
SpecSweep ==
  Init /\ [][NextSweep]_vars /\ WF_vars(Tick) /\ WF_vars(ExpireOverdue)

\* the scorer alone, called on every snapshot of Snapshots, rule by rule
NextScore ==
  \/ AnalyzeStart
  \/ RsiRule
  \/ MacdRule
  \/ MovingAverageRule
  \/ BollingerRule
  \/ AdxRule
  \/ AtrRule
  \/ ConfluenceRule
  \/ AnalyzeReturn

SpecScore == Init /\ [][NextScore]_vars

\* one wrapped call, every outcome of each attempt and of each resynchronisation
NextRetry ==
  \/ RetryStart
  \/ \E outcome \in {<<"ok">>} \cup ErrorMessages : RetryCall(outcome)
  \/ \E outcome \in SyncOutcomes : RetrySync(outcome)

SpecRetry == Init /\ [][NextRetry]_vars

\* the wrapped call returns or raises (the client has a timeout of 15 s),
\* _sync_server_time returns and the sleep of 2 s ends: a started call keeps
\* taking its steps
SpecRetryFair == SpecRetry /\ WF_vars(NextRetry)

\* ================================================================== claims
\* the stored row of the strategy handler p was called for
Stored(p) == strategies[req[p].strategy_id]

\* handler p leaves its precondition check in this step
LeavesCheck(p) == pc[p] = "check" /\ pc'[p] # "check"

\* this step makes no exchange call for handler p and changes no order
NoExchangeCall(p) == calls'[p] = calls[p] /\ orders' = orders

\* C1: execute on an id that matches no strategy fails NotFound, and on a
\* strategy whose status is OPEN, CLOSED, CANCELLED or EXPIRED fails
\* InvalidState; the failing call has issued no exchange call and the step
\* changes no strategy record.
C1_NotFoundOrInvalidState ==
  [][\A p \in Procs :
       LeavesCheck(p)
       /\ (snap[p] = Missing
           \/ snap[p].status \in {"OPEN", "CLOSED", "CANCELLED", "EXPIRED"})
       => /\ pc'[p] = "done"
          /\ result'[p] = IF snap[p] = Missing
                          THEN HttpError(404, "NotFound")
                          ELSE HttpError(400, "InvalidState")
          /\ calls'[p] = <<>>
          /\ NoExchangeCall(p)
          /\ strategies' = strategies]_vars

C1_Witness ==
  \E p \in Procs :
    /\ pc[p] = "done"
    /\ snap[p].status = "CLOSED"
    /\ result[p] = HttpError(400, "InvalidState")
    /\ calls[p] = <<>>

C3_RecordedWithOrderId ==
  [][\A p \in Procs :
       pc[p] = "record" /\ pc'[p] = "done" /\ result'[p].http = 200
       => LET row == strategies'[req[p].strategy_id]
          IN  /\ row.status = "OPEN"
              /\ row.executed
              /\ row.executed_at # None
              /\ row.transaction_id = result'[p].execution_result.order_id]_vars

\* the order the exchange accepted for the current call of handler p
Accepted(p) ==
  {o \in orders : result[p].execution_result.success
                  /\ result[p].execution_result.order_id = Some(o.orderId)}

\* C4: an entry order is placed on the strength of the status the handler
\* read at its check, not of the stored status at placement: every placement
\* is by a handler whose read returned PENDING, and the write of OPEN that
\* follows is unconditional.  Two concurrent calls for one PENDING strategy
\* can therefore both pass the check before either writes OPEN and both
\* place an order (C4_Witness): at most one entry order per strategy is not
\* an invariant.
C4_PlacedOnStatusAsRead ==
  [][\A p \in Procs :
       /\ pc[p] = "place" /\ pc'[p] = "record"
          => /\ snap[p].status = "PENDING"
             /\ \E o \in orders' \ orders :
                  o.strategy_id = req[p].strategy_id /\ o.placed_by = p
       /\ pc[p] = "record" /\ pc'[p] = "done" /\ result'[p].http = 200
          => strategies'[req[p].strategy_id].status = "OPEN"]_vars

C4_Witness ==
  \E p \in Procs, q \in Procs :
    /\ p # q
    /\ pc[p] = "record" /\ pc[q] = "record"
    /\ req[p].strategy_id = req[q].strategy_id
    /\ Stored(p).status = "PENDING"
    /\ Accepted(p) # {} /\ Accepted(q) # {}
    /\ \A o \in Accepted(p) \cup Accepted(q) : o.status = "open"

\* the live orders whose tag starts with the base tag of a strategy
LiveWithBase(id) ==
  {o \in orders :
     /\ o.status = "open"
     /\ StartsWith(o.orderLinkId,
                   BaseOrderId(Ticket(id), strategies[id].symbol,
                               SideOf(strategies[id].action)))}

\* C5: when the calls for a strategy do not overlap and the open-order
\* listing and every cancel succeed, at most one live order whose tag starts
\* with the strategy's base tag exists on the exchange, however often the
\* execution is repeated.
C5_AtMostOneLiveOrder ==
  \A id \in DOMAIN strategies : Cardinality(LiveWithBase(id)) <= 1

C5_Witness ==
  \E o1 \in orders, o2 \in orders :
    /\ o1.strategy_id = o2.strategy_id
    /\ o1.status = "cancelled"
    /\ o2.status = "open"
    /\ strategies[o1.strategy_id].status = "PENDING"

\* the kinds of the exchange calls of handler p, in order
Kinds(p) == [i \in 1..Len(calls[p]) |-> calls[p][i][1]]

\* the orders handler p has issued a cancel for
CancelIds(p) ==
  {calls[p][i][2] : i \in {j \in 1..Len(calls[p]) : calls[p][j][1] = "cancel_order"}}

\* the orders handler p still has to issue a cancel for
PendingIds(p) ==
  {engine[p].orders_to_cancel[i].orderId : i \in 1..Len(engine[p].orders_to_cancel)}

HasPlaced(p) == \E i \in 1..Len(calls[p]) : calls[p][i][1] = "place_order"

\* every cancel of handler p is for an order of its own strategy, symbol and
\* side, and comes before the place-order
CancelsOwnOrdersFirst(p) ==
  /\ \A o \in orders :
       o.orderId \in CancelIds(p) \cup PendingIds(p)
       => /\ o.strategy_id = req[p].strategy_id
          /\ o.symbol = snap[p].symbol
          /\ o.side = SideOf(snap[p].action)
  /\ HasPlaced(p) => /\ PendingIds(p) = {}
                     /\ Kinds(p)[Len(calls[p])] = "place_order"
                     /\ \A i \in 1..(Len(calls[p]) - 1) :
                          Kinds(p)[i] # "place_order"

Rank(kind) ==
  CASE kind = "get_wallet_balance" -> 1
    [] kind = "get_open_orders" -> 2
    [] kind = "cancel_order" -> 3
    [] kind = "place_order" -> 4

\* C7: within one execute call the exchange calls occur in the order balance
\* query, open-order listing, cancels, one place-order; the listing, the
\* cancels and the place-order are issued only after the balance check has
\* passed, and the place-order only after all cancel attempts have finished.
C7_CallOrder ==
  \A p \in Procs :
    LET n == Len(calls[p])
    IN  /\ \A i \in 1..n, j \in 1..n :
             i < j => /\ Rank(Kinds(p)[i]) <= Rank(Kinds(p)[j])
                      /\ Rank(Kinds(p)[i]) = Rank(Kinds(p)[j])
                         => Kinds(p)[i] = "cancel_order"
        /\ n >= 1 => Kinds(p)[1] = "get_wallet_balance"
        /\ n >= 2 => /\ Kinds(p)[2] = "get_open_orders"
                     /\ engine[p].available_balance # None
                     /\ engine[p].available_balance[1] >= req[p].usdt_amount
        /\ HasPlaced(p) => PendingIds(p) = {}

C7_Witness ==
  \E p \in Procs :
    /\ Len(calls[p]) = 4
    /\ Kinds(p) = <<"get_wallet_balance", "get_open_orders", "cancel_order",
                    "place_order">>

\* C8: when the balance read is less than usdtAmount, execute fails
\* InsufficientBalance having issued the balance query only (no listing, no
\* cancel, no place-order), and the strategy record is unchanged.
C8_InsufficientBalance ==
  [][\A p \in Procs :
       /\ pc[p] = "balance"
       /\ engine'[p].available_balance # None
       /\ engine'[p].available_balance[1] < req[p].usdt_amount
       => /\ pc'[p] = "done"
          /\ result'[p] = HttpOk(Failure("InsufficientBalance"))
          /\ calls'[p] = << <<"get_wallet_balance", 0>> >>
          /\ orders' = orders
          /\ strategies' = strategies]_vars

C8_Witness ==
  \E p \in Procs :
    /\ pc[p] = "done"
    /\ result[p] = HttpOk(Failure("InsufficientBalance"))
    /\ engine[p].available_balance[1] < req[p].usdt_amount
    /\ Len(calls[p]) = 1

\* C9: an execute that reaches the order placement issues one place-order,
\* also for a strategy that has only one of take profit and stop loss or
\* neither; the order accepted is a limit order at the entry price for the
\* normalized quantity and carries a takeProfit exactly when the strategy has
\* one and a stopLoss exactly when the strategy has one.
C9_PlacesWithOptionalLegs ==
  [][\A p \in Procs :
       pc[p] = "place" /\ pc'[p] # "place"
       => /\ calls'[p] = Append(calls[p], <<"place_order", 0>>)
          /\ pc'[p] = "record"
             => \E o \in orders' \ orders :
                  /\ orders' = orders \cup {o}
                  /\ o.orderType = "Limit"
                  /\ o.price = snap[p].entry_price
                  /\ o.qty = Quantity(snap[p].symbol, snap[p].entry_price,
                                      req[p].usdt_amount)
                  /\ o.takeProfit = snap[p].take_profit
                  /\ o.stopLoss = snap[p].stop_loss]_vars

\* C10: an execute that fails after passing its preconditions returns a
\* result with success = false and an error instead of raising, and leaves
\* the strategy record as it was, so that the strategy can be executed again.
C10_FailureLeavesRecord ==
  [][\A p \in Procs :
       pc[p] \in {"balance", "list", "cancel", "place"} /\ pc'[p] = "done"
       => /\ result'[p].http = 200
          /\ result'[p].execution_result.success = FALSE
          /\ "error" \in DOMAIN result'[p].execution_result
          /\ strategies' = strategies]_vars

C10_Witness ==
  \E p \in Procs :
    /\ pc[p] = "done"
    /\ result[p] = HttpOk(Failure("ExchangeRejected"))
    /\ Stored(p).status = "PENDING"
    /\ ~Stored(p).executed
    /\ Stored(p).transaction_id = None
    /\ now <= Stored(p).expires_at

C12_QuantityNormalized ==
  \A o \in orders :
    /\ o.price > 0
    /\ o.qty % QtyStep(o.symbol) = 0
    /\ o.qty >= MinQuantity(o.symbol)
    /\ o.qty * o.price >= MinNotional * QtyScale

\* C13: execute_strategy called with a side other than Buy/Sell, with a usdt
\* amount <= 0 or with an entry price <= 0 returns a result with success =
\* false and an error, and makes no exchange call at all (no balance query,
\* listing, cancel or place-order).
C13_InvalidParameter ==
  [][\A p \in Procs :
       /\ pc[p] = "balance"
       /\ pc'[p] # "balance"
       /\ \/ SideArg(p) \notin {"Buy", "Sell"}
          \/ req[p].usdt_amount <= 0
          \/ snap[p].entry_price <= 0
       => /\ pc'[p] = "done"
          /\ result'[p].http = 200
          /\ result'[p].execution_result.success = FALSE
          /\ result'[p].execution_result.error # ""
          /\ calls'[p] = <<>>
          /\ orders' = orders]_vars

\* the call of the test script with entry price 0: the division raises
\* before the validation, and the call fails without an exchange call
C13_Witness ==
  \E p \in Procs :
    /\ pc[p] = "done"
    /\ calls[p] = <<>>
    /\ snap[p].status = "DIRECT"
    /\ snap[p].side = "Buy" /\ req[p].usdt_amount = 10 /\ snap[p].entry_price = 0
    /\ result[p] = HttpOk(Failure("ZeroDivisionError"))

\* C14: in every reachable state a strategy with executed = true has status
\* OPEN or CLOSED, whatever operations led to that state.
C14_ExecutedIsOpenOrClosed ==
  \A id \in DOMAIN strategies :
    strategies[id].executed => strategies[id].status \in {"OPEN", "CLOSED"}

\* the edges of the strategy lifecycle
LifecycleEdges ==
  { <<"PENDING", "OPEN">>, <<"OPEN", "CLOSED">>, <<"PENDING", "CANCELLED">>,
    <<"PENDING", "EXPIRED">> }

\* C15: in every step the status of a strategy either stays the same or
\* follows one of the edges PENDING->OPEN, OPEN->CLOSED, PENDING->CANCELLED,
\* PENDING->EXPIRED, so that CLOSED, CANCELLED and EXPIRED are never left.
C15_LifecycleEdgesOnly ==
  [][\A id \in DOMAIN strategies :
       \/ strategies'[id].status = strategies[id].status
       \/ <<strategies[id].status, strategies'[id].status>> \in LifecycleEdges]_vars

\* C16: expireOverdue sets status = EXPIRED on exactly the records with status
\* PENDING or OPEN and expiresAt < now, leaves every other record and every
\* other field as it was, and returns the number of records it changed; in
\* the state it leaves no record is overdue, so that a second call made
\* immediately after it returns 0 and changes nothing.
C16_SweepExactAndIdempotent ==
  [][returned'.flip # returned.flip /\ returned'.op = "expire"
     => /\ DOMAIN strategies' = DOMAIN strategies
        /\ \A id \in DOMAIN strategies :
             strategies'[id] =
               IF strategies[id].status \in {"PENDING", "OPEN"}
                  /\ strategies[id].expires_at < now
               THEN [strategies[id] EXCEPT !.status = "EXPIRED"]
               ELSE strategies[id]
        /\ returned'.count =
             Cardinality({id \in DOMAIN strategies :
                            strategies'[id] # strategies[id]})
        /\ {id \in DOMAIN strategies' :
              /\ strategies'[id].status \in {"PENDING", "OPEN"}
              /\ strategies'[id].expires_at < now'} = {}]_vars

\* a sweep that expired one record and left another, not overdue, as it was
C16_Witness ==
  /\ returned.op = "expire"
  /\ returned.count = 1
  /\ returned.at = now
  /\ \E i \in DOMAIN strategies, j \in DOMAIN strategies :
       /\ strategies[i].status = "EXPIRED" /\ strategies[i].expires_at < now
       /\ strategies[j].status = "PENDING" /\ strategies[j].expires_at >= now

\* C17: every strategy getActive returns has status PENDING, has expiresAt
\* not earlier than the time of the sweep that getActive ran first, and
\* matches the symbol filter when one is given; every PENDING non-expired
\* strategy matching the filter is returned; getActive changes no record
\* except through that sweep.
C17_ActiveArePendingAndCurrent ==
  [][/\ returned'.flip # returned.flip /\ returned'.op = "get_active_swept"
        => strategies' =
             [id \in DOMAIN strategies |->
                IF strategies[id].status \in {"PENDING", "OPEN"}
                   /\ strategies[id].expires_at < now
                THEN [strategies[id] EXCEPT !.status = "EXPIRED"]
                ELSE strategies[id]]
     /\ returned.op = "get_active_swept" /\ returned'.op = "get_active"
        => /\ strategies' = strategies
           /\ \A id \in returned'.rows :
                /\ id \in DOMAIN strategies
                /\ strategies[id].status = "PENDING"
                /\ strategies[id].expires_at >= returned.at
                /\ returned.symbol # "" => strategies[id].symbol = returned.symbol
           /\ \A id \in DOMAIN strategies :
                /\ strategies[id].status = "PENDING"
                /\ strategies[id].expires_at >= now
                /\ returned.symbol # "" => strategies[id].symbol = returned.symbol
                => id \in returned'.rows]_vars

\* C18: updateStatus called with an id that matches no strategy fails
\* NotFound (it does not report success) and changes no record.
C18_UpdateUnknownIdNotFound ==
  [][/\ returned'.flip # returned.flip
     /\ returned'.op = "put_status"
     /\ returned'.http # 400
     /\ returned'.id \notin DOMAIN strategies
     => /\ returned'.http = 404
        /\ strategies' = strategies]_vars

\* C19: create persists a new record, with a fresh id, status PENDING and
\* executed = false, exactly when the action is LONG or SHORT and
\* 0 <= confidence <= 100; otherwise it fails, InvalidAction for an action
\* such as HOLD, InvalidConfidence for a confidence such as 150, and the
\* store is unchanged.
C19_CreateValidates ==
  [][returned'.flip # returned.flip /\ returned'.op = "save_strategy"
     => IF /\ returned'.action \in {"LONG", "SHORT"}
           /\ 0 <= returned'.confidence /\ returned'.confidence <= 100
        THEN /\ returned'.error = ""
             /\ returned'.id \notin DOMAIN strategies
             /\ DOMAIN strategies' = DOMAIN strategies \cup {returned'.id}
             /\ strategies'[returned'.id].status = "PENDING"
             /\ strategies'[returned'.id].executed = FALSE
             /\ \A i \in DOMAIN strategies : strategies'[i] = strategies[i]
        ELSE /\ returned'.error =
                  IF returned'.action \notin {"LONG", "SHORT"}
                  THEN "InvalidAction" ELSE "InvalidConfidence"
             /\ strategies' = strategies]_vars

\* a record was created, and a later call with confidence 150 has failed
\* leaving the store as it was
C19_Witness ==
  /\ returned.op = "save_strategy"
  /\ returned.error = "InvalidConfidence"
  /\ returned.confidence = 150
  /\ Cardinality(DOMAIN strategies) = 1
  /\ \A i \in DOMAIN strategies : strategies[i].status = "PENDING"

\* C20: in every reachable state each strategy's expiresAt equals its
\* creation time plus one hour, and no step of any operation (updateStatus,
\* expireOverdue, getActive, execute) changes the expiresAt or the creation
\* time of an existing record.
C20_ExpiresAtFixed ==
  /\ [](\A id \in DOMAIN strategies :
          strategies[id].expires_at = strategies[id].created_at + ExpiryHours)
  /\ [][\A id \in DOMAIN strategies :
          /\ id \in DOMAIN strategies'
          /\ strategies'[id].expires_at = strategies[id].expires_at
          /\ strategies'[id].created_at = strategies[id].created_at]_vars

\* an executed strategy that is EXPIRED after a getActive whose sweep ran
\* past its expiry
C20_Witness ==
  /\ returned.op = "get_active"
  /\ \E id \in DOMAIN strategies :
       /\ strategies[id].executed
       /\ strategies[id].status = "EXPIRED"
       /\ strategies[id].expires_at < returned.at

\* the scorer is between its first rule and its return
Scoring == score.pc \notin {"idle", "done", "raised"}

\* C21: while score evaluates its rules in order, once direction is BULLISH
\* no later rule, the confluence bonus included, changes it to BEARISH, and
\* once it is BEARISH none changes it to BULLISH.
C21_DirectionNeverFlipped ==
  [][Scoring =>
       /\ ~(score.direction = "BULLISH" /\ score'.direction = "BEARISH")
       /\ ~(score.direction = "BEARISH" /\ score'.direction = "BULLISH")]_vars

\* C22: score raises no exception, whichever fields of the snapshot are
\* absent and whatever numbers the others hold, and a rule whose required
\* fields are absent changes neither strength, direction nor the signals.
C22_NoException ==
  /\ [](score.pc # "raised")
  /\ [][(score.pc = "bollinger" /\ score.indicators.bb_middle = None)
          \/ (score.pc = "atr" /\ score.indicators.price = None)
          => /\ score'.strength = score.strength
             /\ score'.direction = score.direction
             /\ score'.signals = score.signals]_vars

\* the RSI rule fires as extreme oversold and the MACD rule fires bullish
OversoldWithBullishMacd(i) ==
  /\ i.rsi # None /\ i.rsi[1] < 25
  /\ None \notin {i.macd, i.macd_signal, i.macd_hist}
  /\ i.macd[1] > i.macd_signal[1] /\ i.macd_hist[1] > 0

\* C23: for every snapshot with rsi < 25 and a bullish MACD, whatever the
\* other fields are, score returns strength >= 3.5, direction BULLISH and
\* should_analyze true.
C23_OversoldBullishScenario ==
  score.pc = "done" /\ OversoldWithBullishMacd(score.indicators)
    => /\ score.strength >= 35
       /\ score.direction = "BULLISH"
       /\ score.should_analyze

\* the scenario returns BULLISH although the trend stack and the Bollinger
\* rule both fired bearish
C23_Witness ==
  /\ score.pc = "done"
  /\ OversoldWithBullishMacd(score.indicators)
  /\ score.bearish_count = 2
  /\ score.direction = "BULLISH"

OtherErrors == {<<"Retries", "exceeded">>, <<"Insufficient", "balance">>}

\* the invocations of the wrapped call, and the resynchronisations, so far
Invocations == {i \in 1..Len(retry.trace) : retry.trace[i] = "call"}
Resyncs == {i \in 1..Len(retry.trace) : retry.trace[i] \in SyncOutcomes}

\* C25: withRetry invokes the wrapped call at most 3 times and terminates;
\* each retry is preceded by exactly one resynchronisation (at most 2 per
\* call, and a failed one does not stop the retry), and when the third
\* attempt fails with a clock-skew error, that attempt's error is raised.
C25_BoundedRetries ==
  /\ [](/\ Cardinality(Invocations) <= 3
        /\ Cardinality(Resyncs) <= 2
        /\ \A i \in 2..Len(retry.trace) :
             (retry.trace[i] = "call") = (retry.trace[i - 1] \in SyncOutcomes)
        /\ Len(retry.trace) > 0 => retry.trace[1] = "call"
        /\ retry.pc = "call" /\ Len(retry.trace) > 0
             => retry.trace[Len(retry.trace)] \in SyncOutcomes
        /\ retry.pc = "raised" /\ Cardinality(Invocations) = 3
             => retry.raised = <<retry.errors[3]>>
                /\ retry.errors[3].attempt = MaxRetries)
  /\ (retry.pc = "call" ~> retry.pc \in {"returned", "raised"})

\* three clock-skew failures, the second retry after a failed
\* resynchronisation, and the third error raised
C25_Witness ==
  /\ retry.pc = "raised"
  /\ Cardinality(Invocations) = 3
  /\ retry.trace[4] = "sync_failed"
  /\ retry.raised[1].message \notin OtherErrors
  /\ retry.raised[1].attempt = 2

\* C26: an error not classified as clock-skew is raised right after its
\* attempt, with no resynchronisation and no further invocation, also on a
\* retry; a successful attempt returns with no further invocation or
\* resynchronisation.
C26_OtherErrorsPropagate ==
  /\ [](/\ \A i \in 1..Len(retry.errors) :
             retry.errors[i].message \in OtherErrors
               => /\ i = Len(retry.errors)
                  /\ retry.pc = "raised"
                  /\ retry.raised = <<retry.errors[i]>>
                  /\ retry.trace[Len(retry.trace)] = "call"
                  /\ Cardinality(Invocations) = i
                  /\ Cardinality(Resyncs) = i - 1
        /\ retry.pc = "returned"
             => /\ retry.result = "ok"
                /\ retry.trace[Len(retry.trace)] = "call"
                /\ Cardinality(Invocations) = Len(retry.errors) + 1
                /\ Cardinality(Resyncs) = Len(retry.errors))
  /\ [][retry.pc \in {"returned", "raised"} => retry' = retry]_vars

\* a retry that follows a clock-skew failure fails with another error, which
\* is raised at once
C26_Witness ==
  /\ retry.pc = "raised"
  /\ Len(retry.errors) = 2
  /\ retry.errors[1].message \notin OtherErrors
  /\ retry.raised = <<[message |-> <<"Retries", "exceeded">>, attempt |-> 1]>>
  /\ Cardinality(Resyncs) = 1

\* C27: every entry order placed by execute carries its base tag
\* (ticket_symbol_side) followed by the timestamp read in that call, and any
\* two orders placed by execute attempts for the same strategy carry different
\* client tags.
C27_UniqueClientTags ==
  /\ [][\A p \in Procs :
          pc[p] = "place" /\ pc'[p] # "place"
            => \A o \in orders' \ orders :
                 o.orderLinkId =
                   BaseOrderId(Ticket(req[p].strategy_id), o.symbol, o.side)
                     \o <<"_">> \o Str(engine[p].timestamp)]_vars
  /\ [](\A o1 \in orders, o2 \in orders :
          o1 # o2 /\ o1.strategy_id = o2.strategy_id
            => o1.orderLinkId # o2.orderLinkId)

\* C28: with execute running concurrently with expireOverdue or
\* updateStatus, no entry order is placed for a strategy whose stored status
\* at the moment of placement is not PENDING, and a record that another
\* operation moved out of PENDING during the execute is not overwritten to
\* OPEN by that execute.
C28_PlacedOnlyWhilePending ==
  [][\A p \in Procs :
       /\ pc[p] = "place" /\ pc'[p] = "record"
            => Stored(p).status = "PENDING"
       /\ pc[p] = "record" /\ pc'[p] # "record"
          /\ Stored(p).status # "PENDING"
            => strategies'[req[p].strategy_id].status = Stored(p).status]_vars

Places(p) == pc[p] = "place" /\ pc'[p] # "place" /\ orders' # orders

\* C30 as stated: whenever execute places an entry order, the order's
\* notional (final quantity x entry price) does not exceed the available
\* balance read by the balance check of that call.
C30_NotionalWithinBalance ==
  [][\A p \in Procs :
       Places(p)
         => \A o \in orders' \ orders :
              o.qty * o.price <= engine[p].available_balance[1] * QtyScale]_vars

\* C30: whenever execute places an entry order, the balance was read in that
\* call and the requested usdt_amount does not exceed it; the order is the
\* one computed from usdt_amount, whatever its notional.
C30_RequestWithinBalance ==
  [][\A p \in Procs :
       Places(p)
         => /\ engine[p].available_balance # None
            /\ req[p].usdt_amount <= engine[p].available_balance[1]
            /\ \A o \in orders' \ orders :
                 o.qty = Quantity(o.symbol, o.price, req[p].usdt_amount)]_vars

\* an order of 0.001 BTC at 58500 (58.5 USDT) placed for a request of 5 USDT
\* after a balance of 20 USDT was read
C30_Witness ==
  /\ pc["h1"] = "record"
  /\ req["h1"].usdt_amount = 5
  /\ engine["h1"].available_balance = Some(20)
  /\ \E o \in orders :
       /\ o.orderId = result["h1"].execution_result.order_id[1]
       /\ o.qty * o.price > 20 * QtyScale

====
